---- MODULE Spec2Model ----
(***************************************************************************)
(* Graph colouring for frequency assignment (src/graph_coloring.py):       *)
(* the Graph container (nodes, edges, adjacency index) and the four        *)
(* colouring strategies of FrequencyAssigner (greedy, Welsh-Powell,        *)
(* DSATUR, exact backtracking) with the statistics record they return.     *)
(*                                                                         *)
(* Every method call is one action; SpecSteps also runs dsatur one step at  *)
(* a time.  The algorithms are operators over a                            *)
(* record st = [color, saturation, adjacency], the three parts of the      *)
(* graph a run can write; nodeOrder, degree and edges are read from the    *)
(* state.  time_ms, the wall-clock field of the statistics, is left out,    *)
(* and so is self.stats, a second reference to the record a run returns.   *)
(* efficiency is kept in hundredths of a percent (round(x, 2) * 100).      *)
(***************************************************************************)
EXTENDS Integers, Sequences, FiniteSets, TLC

\* ------------------------------------------------------------------ bounds

\* Node ids are -1..MaxId; the negative id exercises CPython's set order.
MaxId == 2
\* Most nodes a graph holds.
MaxNodes == 4
\* Most edges a graph holds.
MaxEdges == 3
\* Largest colour a caller pre-assigns by hand.
MaxSeedColor == 1
\* Largest explicit max_colors passed to backtracking_exact.
MaxBudget == 3
\* SpecGraph: ids are 0..MaxFreeId; most nodes; largest x coordinate of a position.
MaxFreeId == 2
MaxFreeNodes == 3
MaxCoord == 1
\* SpecBuilt: most nodes of Graph(num_nodes) and most edges added to it.
MaxGraphNodes == 6
MaxGraphEdges == 9
\* SpecSteps: most nodes and edges of a graph that dsatur colours step by step.
MaxStepNodes == 4
MaxStepEdges == 4

Ids == {-1} \cup (0..MaxId)
FreeIds == 0..MaxFreeId
SeedColors == 0..MaxSeedColor
Positions == {<<x, 0>> : x \in 0..MaxCoord}

\* Optional[int] = None of Node.color
None == -1

VARIABLES
    nodeOrder,   \* keys of Graph.nodes, in insertion order (dict order)
    position,    \* Node.position of each node
    color,       \* Node.color of each node (None or a colour >= 0)
    degree,      \* Node.degree of each node
    saturation,  \* Node.saturation of each node
    neighbors,   \* Node.neighbors of each node
    edges,       \* Graph.edges, a list of pairs <<u, v>>
    adjacency,   \* Graph.adjacency, a defaultdict(set): a function on its keys
    last,        \* the most recent call: its name and arguments
    result       \* what the most recent call returned or raised; while a dsatur
                 \* call is under way (SpecSteps), the locals of that call

graphVars == <<nodeOrder, position, color, degree, saturation, neighbors, edges, adjacency>>
vars == <<nodeOrder, position, color, degree, saturation, neighbors, edges, adjacency,
          last, result>>

\* ------------------------------------------------------------------ helpers

NodeIds == {nodeOrder[i] : i \in 1..Len(nodeOrder)}

SeqRange(s) == {s[i] : i \in 1..Len(s)}

\* A read of the defaultdict: a missing key reads as the empty set ...
AdjGet(adj, u) == IF u \in DOMAIN adj THEN adj[u] ELSE {}

\* ... and the read inserts the key.
AdjTouch(adj, u) == IF u \in DOMAIN adj THEN adj ELSE (u :> {}) @@ adj

\* The fields of the graph that reset_colors and the algorithms write.
RunStateOf(col, sat, adj) == [color |-> col, saturation |-> sat, adjacency |-> adj]

ReturnedNone == [kind |-> "None"]
Value(v) == [kind |-> "value", value |-> v]
Raised(exc) == [kind |-> "raise", exception |-> exc]

\* ------------------------------------------------------------------ Graph

Init ==
    /\ nodeOrder = <<>>
    /\ position = <<>>
    /\ color = <<>>
    /\ degree = <<>>
    /\ saturation = <<>>
    /\ neighbors = <<>>
    /\ edges = <<>>
    /\ adjacency = <<>>
    /\ last = [op |-> "Graph", args |-> <<>>]
    /\ result = ReturnedNone

\* Graph.add_node(node_id, position)
AddNode(id, pos) ==
    /\ IF id \notin NodeIds
       THEN /\ nodeOrder' = Append(nodeOrder, id)
            /\ position' = (id :> pos) @@ position
            /\ color' = (id :> None) @@ color
            /\ degree' = (id :> 0) @@ degree
            /\ saturation' = (id :> 0) @@ saturation
            /\ neighbors' = (id :> {}) @@ neighbors
       ELSE UNCHANGED <<nodeOrder, position, color, degree, saturation, neighbors>>
    /\ UNCHANGED <<edges, adjacency>>
    /\ last' = [op |-> "add_node", args |-> <<id>>]
    /\ result' = ReturnedNone

\* Mutant: add_edge without line 53, self.adjacency[v].add(u).
AddEdgeBodyOneSided(u, v) ==
    IF u /= v /\ v \notin AdjGet(adjacency, u)
    THEN /\ edges' = Append(edges, <<u, v>>)
         /\ adjacency' = [k \in DOMAIN adjacency \cup {u} |->
                            IF k = u THEN AdjGet(adjacency, u) \cup {v} ELSE adjacency[k]]
         /\ degree' = [degree EXCEPT ![u] = @ + 1, ![v] = @ + 1]
         /\ neighbors' = [neighbors EXCEPT ![u] = @ \cup {v}, ![v] = @ \cup {u}]
    ELSE /\ adjacency' = IF u /= v THEN AdjTouch(adjacency, u) ELSE adjacency
         /\ UNCHANGED <<edges, degree, neighbors>>

\* Mutant: the duplicate test as `(u, v) not in self.edges`, blind to (v, u).
AddEdgeBodyListCheck(u, v) ==
    IF u /= v /\ <<u, v>> \notin SeqRange(edges)
    THEN /\ edges' = Append(edges, <<u, v>>)
         /\ adjacency' = [k \in DOMAIN adjacency \cup {u, v} |->
                            IF k = u THEN AdjGet(adjacency, u) \cup {v}
                            ELSE IF k = v THEN AdjGet(adjacency, v) \cup {u}
                            ELSE adjacency[k]]
         /\ degree' = [degree EXCEPT ![u] = @ + 1, ![v] = @ + 1]
         /\ neighbors' = [neighbors EXCEPT ![u] = @ \cup {v}, ![v] = @ \cup {u}]
    ELSE UNCHANGED <<edges, adjacency, degree, neighbors>>

\* The body of add_edge once both ids are known to be nodes.
AddEdgeBody(u, v) ==
    IF u /= v /\ v \notin AdjGet(adjacency, u)
    THEN /\ edges' = Append(edges, <<u, v>>)
         /\ adjacency' = [k \in DOMAIN adjacency \cup {u, v} |->
                            IF k = u THEN AdjGet(adjacency, u) \cup {v}
                            ELSE IF k = v THEN AdjGet(adjacency, v) \cup {u}
                            ELSE adjacency[k]]
         /\ degree' = [degree EXCEPT ![u] = @ + 1, ![v] = @ + 1]
         /\ neighbors' = [neighbors EXCEPT ![u] = @ \cup {v}, ![v] = @ \cup {u}]
    ELSE /\ adjacency' = IF u /= v THEN AdjTouch(adjacency, u) ELSE adjacency
         /\ UNCHANGED <<edges, degree, neighbors>>

\* Mutant: add_edge that reads self.adjacency[u] before it validates the ids, so
\* a failing call leaves a key in the defaultdict.
AddEdgeReadsFirst(u, v) ==
    /\ IF u \notin NodeIds \/ v \notin NodeIds
       THEN /\ result' = Raised("ValueError")
            /\ adjacency' = AdjTouch(adjacency, u)
            /\ UNCHANGED <<edges, degree, neighbors>>
       ELSE /\ AddEdgeBody(u, v)
            /\ result' = ReturnedNone
    /\ UNCHANGED <<nodeOrder, position, color, saturation>>
    /\ last' = [op |-> "add_edge", args |-> <<u, v>>]

\* Graph.add_edge(u, v)
AddEdge(u, v) ==
    /\ IF u \notin NodeIds \/ v \notin NodeIds
       THEN /\ result' = Raised("ValueError")
            /\ UNCHANGED <<edges, adjacency, degree, neighbors>>
       ELSE /\ AddEdgeBody(u, v)
            /\ result' = ReturnedNone
    /\ UNCHANGED <<nodeOrder, position, color, saturation>>
    /\ last' = [op |-> "add_edge", args |-> <<u, v>>]

\* The caller writes graph.nodes[id].color = c (a pre-assigned frequency).
SetColor(id, c) ==
    /\ id \in NodeIds
    /\ color' = [color EXCEPT ![id] = c]
    /\ UNCHANGED <<nodeOrder, position, degree, saturation, neighbors, edges, adjacency>>
    /\ last' = [op |-> "set_color", args |-> <<>>]
    /\ result' = ReturnedNone

\* Mutant: `if self.nodes[neighbor].color:` (truthiness), which drops colour 0.
GetNeighborColorsTruthy(adj, col, id) ==
    {col[n] : n \in {m \in AdjGet(adj, id) : col[m] /= None /\ col[m] /= 0}}

\* Graph.get_neighbor_colors(node_id): the value returned (the insertion of the
\* key into the defaultdict is AdjTouch).
GetNeighborColors(adj, col, id) ==
    {col[n] : n \in {m \in AdjGet(adj, id) : col[m] /= None}}

\* Mutant: the largest colour in use instead of the number of colours.
GetChromaticNumberMax(col) ==
    LET used == {col[n] : n \in {m \in DOMAIN col : col[m] /= None}}
    IN IF used = {} THEN 0 ELSE CHOOSE c \in used : \A d \in used : d <= c

\* Graph.get_chromatic_number()
GetChromaticNumber(col) ==
    Cardinality({col[n] : n \in {m \in DOMAIN col : col[m] /= None}})

\* Mutant: count_conflicts without the two `is not None` tests, so that an edge
\* between uncoloured nodes counts.
CountConflictsNoneEqual(es, col) ==
    Cardinality({i \in 1..Len(es) : col[es[i][1]] = col[es[i][2]]})

\* Graph.count_conflicts()
CountConflicts(es, col) ==
    Cardinality({i \in 1..Len(es) :
                    /\ col[es[i][1]] /= None
                    /\ col[es[i][2]] /= None
                    /\ col[es[i][1]] = col[es[i][2]]})

\* Mutant: reset_colors that clears the saturations and keeps the colours.
ResetColorsKeepColor(st) ==
    [st EXCEPT !.saturation = [n \in DOMAIN st.saturation |-> 0]]

\* Mutant: reset_colors that clears the colours and keeps the saturations.
ResetColorsKeepSaturation(st) ==
    [st EXCEPT !.color = [n \in DOMAIN st.color |-> None]]

\* Mutant: reset_colors that writes colour 0 where it should write None.
ResetColorsToZero(st) ==
    [st EXCEPT !.color = [n \in DOMAIN st.color |-> 0],
               !.saturation = [n \in DOMAIN st.saturation |-> 0]]

\* Graph.reset_colors()
ResetColors(st) ==
    [st EXCEPT !.color = [n \in DOMAIN st.color |-> None],
               !.saturation = [n \in DOMAIN st.saturation |-> 0]]

\* A call of graph.get_neighbor_colors(node_id) from outside: the value, and
\* the key that reading self.adjacency[node_id] leaves in the defaultdict.
GetNeighborColorsCall(id) ==
    /\ adjacency' = AdjTouch(adjacency, id)
    /\ result' = Value(GetNeighborColors(adjacency, color, id))
    /\ UNCHANGED <<nodeOrder, position, color, degree, saturation, neighbors, edges>>
    /\ last' = [op |-> "get_neighbor_colors", args |-> <<id>>]

\* A call of graph.reset_colors() from outside.
ResetColorsCall ==
    /\ color' = ResetColors(RunStateOf(color, saturation, adjacency)).color
    /\ saturation' = ResetColors(RunStateOf(color, saturation, adjacency)).saturation
    /\ UNCHANGED <<nodeOrder, position, degree, neighbors, edges, adjacency>>
    /\ last' = [op |-> "reset_colors", args |-> <<>>]
    /\ result' = ReturnedNone

\* ------------------------------------------------------------------ FrequencyAssigner
\* FrequencyAssigner(graph) keeps a reference to the graph and touches nothing
\* of it, so a run stands for FrequencyAssigner(graph).<algorithm>().

\* The part of the graph a run reads and writes.
RunState == [color |-> color, saturation |-> saturation, adjacency |-> adjacency]

\* FrequencyAssigner.get_smallest_available_color: the while loop from `color`.
RECURSIVE SmallestFrom(_, _)
SmallestFrom(c, neighbor_colors) ==
    IF c \in neighbor_colors THEN SmallestFrom(c + 1, neighbor_colors) ELSE c

\* Mutant: one above the largest neighbour colour instead of the smallest free one.
GetSmallestAvailableColorAboveMax(neighbor_colors) ==
    IF neighbor_colors = {} THEN 0
    ELSE 1 + CHOOSE c \in neighbor_colors : \A d \in neighbor_colors : d <= c

\* Mutant: the while loop started at 1 instead of 0.
GetSmallestAvailableColorFromOne(neighbor_colors) == SmallestFrom(1, neighbor_colors)

GetSmallestAvailableColor(neighbor_colors) == SmallestFrom(0, neighbor_colors)

\* One iteration of the loops of greedy_coloring and welsh_powell.
FirstFitNode(st, id) ==
    [st EXCEPT !.color[id] =
                   GetSmallestAvailableColor(GetNeighborColors(st.adjacency, st.color, id)),
               !.adjacency = AdjTouch(@, id)]

RECURSIVE FirstFitPass(_, _)
FirstFitPass(order, st) ==
    IF order = <<>> THEN st
    ELSE FirstFitPass(Tail(order), FirstFitNode(st, Head(order)))

\* sorted(self.graph.nodes.keys())
RECURSIVE SortedIds(_)
SortedIds(S) ==
    IF S = {} THEN <<>>
    ELSE LET m == CHOOSE x \in S : \A y \in S : x <= y
         IN <<m>> \o SortedIds(S \ {m})

\* Mutant: sorted(..., key=degree) reversed afterwards, which turns the order
\* of equal-degree nodes around.
RECURSIVE SortByDegreeDescLastTie(_)
SortByDegreeDescLastTie(order) ==
    IF order = <<>> THEN <<>>
    ELSE LET i == CHOOSE j \in 1..Len(order) :
                     /\ \A k \in 1..Len(order) : degree[order[k]] <= degree[order[j]]
                     /\ \A k \in (j + 1)..Len(order) : degree[order[k]] < degree[order[j]]
         IN <<order[i]>> \o
            SortByDegreeDescLastTie(SubSeq(order, 1, i - 1) \o SubSeq(order, i + 1, Len(order)))

\* sorted(nodes.values(), key=degree, reverse=True): a stable sort, so nodes of
\* equal degree keep their insertion order.
RECURSIVE SortByDegreeDesc(_)
SortByDegreeDesc(order) ==
    IF order = <<>> THEN <<>>
    ELSE LET i == CHOOSE j \in 1..Len(order) :
                     /\ \A k \in 1..Len(order) : degree[order[k]] <= degree[order[j]]
                     /\ \A k \in 1..(j - 1) : degree[order[k]] < degree[order[j]]
         IN <<order[i]>> \o
            SortByDegreeDesc(SubSeq(order, 1, i - 1) \o SubSeq(order, i + 1, Len(order)))

\* FrequencyAssigner.greedy_coloring: the graph after the run
GreedyColoring(st) == FirstFitPass(SortedIds(NodeIds), ResetColors(st))

\* FrequencyAssigner.welsh_powell: the graph after the run
WelshPowell(st) == FirstFitPass(SortByDegreeDesc(nodeOrder), ResetColors(st))

\* hash() of a CPython int: -1 is reserved, so hash(-1) == -2
PyHash(i) == IF i = -1 THEN -2 ELSE i

\* Slots of the smallest CPython set table
SetTableSize == 8

\* Iteration order of set(self.graph.nodes.keys()): by table slot, hash & mask.
\* Removing an element leaves the order of the others as it was.
RECURSIVE SetIterOrder(_)
SetIterOrder(S) ==
    IF S = {} THEN <<>>
    ELSE LET m == CHOOSE x \in S :
                     \A y \in S : PyHash(x) % SetTableSize <= PyHash(y) % SetTableSize
         IN <<m>> \o SetIterOrder(S \ {m})

\* Python's order on the key tuples (saturation, degree)
KeyLess(a, b) == a[1] < b[1] \/ (a[1] = b[1] /\ a[2] < b[2])

\* max(iterable, key=...): the first element whose key no other element
\* exceeds; key is the function n |-> key(n)
MaxFirst(order, key) ==
    LET i == CHOOSE j \in 1..Len(order) :
                /\ \A k \in 1..Len(order) : ~KeyLess(key[order[j]], key[order[k]])
                /\ \A k \in 1..(j - 1) : KeyLess(key[order[k]], key[order[j]])
    IN order[i]

\* Mutant: lines 149-157 without line 151, the first node left uncoloured.
DsaturFirstNoColor(ds) ==
    IF ds.uncolored = {} THEN ds
    ELSE LET DegreeKey == [n \in ds.uncolored |-> <<degree[n], 0>>]
             first_node == MaxFirst(SetIterOrder(ds.uncolored), DegreeKey)
             rest == ds.uncolored \ {first_node}
             adj == AdjTouch(ds.st.adjacency, first_node)
         IN [st |-> [color |-> ds.st.color,
                     saturation |-> [n \in DOMAIN ds.st.saturation |->
                                       IF n \in adj[first_node] /\ n \in rest
                                       THEN ds.st.saturation[n] + 1
                                       ELSE ds.st.saturation[n]],
                     adjacency |-> adj],
             uncolored |-> rest]

\* dsatur, lines 149-157: colour the node of highest degree, seed the saturations.
\* ds = [st, uncolored]
DsaturFirst(ds) ==
    IF ds.uncolored = {} THEN ds
    ELSE LET DegreeKey == [n \in ds.uncolored |-> <<degree[n], 0>>]
             first_node == MaxFirst(SetIterOrder(ds.uncolored), DegreeKey)
             rest == ds.uncolored \ {first_node}
             adj == AdjTouch(ds.st.adjacency, first_node)
         IN [st |-> [color |-> [ds.st.color EXCEPT ![first_node] = 0],
                     saturation |-> [n \in DOMAIN ds.st.saturation |->
                                       IF n \in adj[first_node] /\ n \in rest
                                       THEN ds.st.saturation[n] + 1
                                       ELSE ds.st.saturation[n]],
                     adjacency |-> adj],
             uncolored |-> rest]

\* Mutant: the selection key without the saturation, (0, degree).
DsaturStepByDegree(ds) ==
    LET SatKey == [n \in ds.uncolored |-> <<0, degree[n]>>]
        selected == MaxFirst(SetIterOrder(ds.uncolored), SatKey)
        adj == AdjTouch(ds.st.adjacency, selected)
        col == [ds.st.color EXCEPT ![selected] =
                   GetSmallestAvailableColor(
                       GetNeighborColors(ds.st.adjacency, ds.st.color, selected))]
        rest == ds.uncolored \ {selected}
    IN [st |-> [color |-> col,
                saturation |-> [n \in DOMAIN ds.st.saturation |->
                                  IF n \in adj[selected] /\ n \in rest
                                  THEN Cardinality(GetNeighborColors(adj, col, n))
                                  ELSE ds.st.saturation[n]],
                adjacency |-> adj],
        uncolored |-> rest]

\* dsatur, lines 160-179: one iteration of the while loop
DsaturStep(ds) ==
    LET SatKey == [n \in ds.uncolored |-> <<ds.st.saturation[n], degree[n]>>]
        selected == MaxFirst(SetIterOrder(ds.uncolored), SatKey)
        adj == AdjTouch(ds.st.adjacency, selected)
        col == [ds.st.color EXCEPT ![selected] =
                   GetSmallestAvailableColor(
                       GetNeighborColors(ds.st.adjacency, ds.st.color, selected))]
        rest == ds.uncolored \ {selected}
    IN [st |-> [color |-> col,
                saturation |-> [n \in DOMAIN ds.st.saturation |->
                                  IF n \in adj[selected] /\ n \in rest
                                  THEN Cardinality(GetNeighborColors(adj, col, n))
                                  ELSE ds.st.saturation[n]],
                adjacency |-> adj],
        uncolored |-> rest]

RECURSIVE DsaturLoop(_)
DsaturLoop(ds) == IF ds.uncolored = {} THEN ds ELSE DsaturLoop(DsaturStep(ds))

\* FrequencyAssigner.dsatur: the graph after the run
Dsatur(st) ==
    DsaturLoop(DsaturFirst([st |-> ResetColors(st), uncolored |-> NodeIds])).st

\* backtracking_exact: backtrack(idx) and its loop over range(max_colors), from
\* colour c on.  node_ids is 1-based here.  Both give [ok, st].
RECURSIVE Backtrack(_, _, _, _), TryColors(_, _, _, _, _, _)
RECURSIVE TryColorsNoUndo(_, _, _, _, _, _), TryColorsShort(_, _, _, _, _, _)

\* Mutant: the loop without line 208, the undo of a failed colour.
TryColorsNoUndo(c, idx, node_ids, max_colors, neighbor_colors, st) ==
    IF c >= max_colors THEN [ok |-> FALSE, st |-> st]
    ELSE IF c \notin neighbor_colors
    THEN LET r == Backtrack(idx + 1, node_ids, max_colors,
                            [st EXCEPT !.color[node_ids[idx]] = c])
         IN IF r.ok THEN r
            ELSE TryColorsNoUndo(c + 1, idx, node_ids, max_colors, neighbor_colors, r.st)
    ELSE TryColorsNoUndo(c + 1, idx, node_ids, max_colors, neighbor_colors, st)

\* Mutant: range(max_colors - 1), a budget one colour short.
TryColorsShort(c, idx, node_ids, max_colors, neighbor_colors, st) ==
    IF c >= max_colors - 1 THEN [ok |-> FALSE, st |-> st]
    ELSE IF c \notin neighbor_colors
    THEN LET r == Backtrack(idx + 1, node_ids, max_colors,
                            [st EXCEPT !.color[node_ids[idx]] = c])
         IN IF r.ok THEN r
            ELSE TryColorsShort(c + 1, idx, node_ids, max_colors, neighbor_colors,
                                [r.st EXCEPT !.color[node_ids[idx]] = None])
    ELSE TryColorsShort(c + 1, idx, node_ids, max_colors, neighbor_colors, st)
Backtrack(idx, node_ids, max_colors, st) ==
    IF idx = Len(node_ids) + 1 THEN [ok |-> TRUE, st |-> st]
    ELSE LET node_id == node_ids[idx]
             neighbor_colors == GetNeighborColors(st.adjacency, st.color, node_id)
         IN TryColors(0, idx, node_ids, max_colors, neighbor_colors,
                      [st EXCEPT !.adjacency = AdjTouch(@, node_id)])

TryColors(c, idx, node_ids, max_colors, neighbor_colors, st) ==
    IF c >= max_colors THEN [ok |-> FALSE, st |-> st]
    ELSE IF c \notin neighbor_colors
    THEN LET r == Backtrack(idx + 1, node_ids, max_colors,
                            [st EXCEPT !.color[node_ids[idx]] = c])
         IN IF r.ok THEN r
            ELSE TryColors(c + 1, idx, node_ids, max_colors, neighbor_colors,
                           [r.st EXCEPT !.color[node_ids[idx]] = None])
    ELSE TryColors(c + 1, idx, node_ids, max_colors, neighbor_colors, st)

\* Mutant: the default budget one colour short of the node count.
BudgetOneShort(max_colors) ==
    IF max_colors = None THEN Len(nodeOrder) - 1 ELSE max_colors

\* The budget: max_colors, or len(self.graph.nodes) when it is None
Budget(max_colors) == IF max_colors = None THEN Len(nodeOrder) ELSE max_colors

\* FrequencyAssigner.backtracking_exact: [ok, st] after the search
BacktrackingExact(st, max_colors) ==
    Backtrack(1, nodeOrder, Budget(max_colors), ResetColors(st))

\* Mutant: the empty graph rated 100 % efficient instead of 0.
EfficiencyEmptyFull(num_nodes, chromatic) ==
    IF num_nodes > 0
    THEN ((num_nodes - chromatic) * 20000 + num_nodes) \div (2 * num_nodes)
    ELSE 10000

\* round(efficiency, 2), in hundredths of a percent
Efficiency(num_nodes, chromatic) ==
    IF num_nodes > 0
    THEN ((num_nodes - chromatic) * 20000 + num_nodes) \div (2 * num_nodes)
    ELSE 0

\* FrequencyAssigner._compute_stats
ComputeStats(algorithm, col) ==
    [algorithm |-> algorithm,
     chromatic_number |-> GetChromaticNumber(col),
     conflicts |-> CountConflicts(edges, col),
     efficiency |-> Efficiency(Len(nodeOrder), GetChromaticNumber(col)),
     nodes |-> Len(nodeOrder),
     edges |-> Len(edges)]

ErrorRecord == [error |-> "No solution found with given color limit"]

\* A call of _compute_stats(algorithm, elapsed_time) on the graph as it is.
ComputeStatsCall(algorithm) ==
    /\ result' = ComputeStats(algorithm, color)
    /\ UNCHANGED graphVars
    /\ last' = [op |-> "_compute_stats", args |-> <<algorithm>>]

\* A run that ends in _compute_stats: the graph becomes st and the record is
\* returned (self.stats holds the same record; only the exporter reads it).
Completes(algorithm, st) ==
    /\ color' = st.color
    /\ saturation' = st.saturation
    /\ adjacency' = st.adjacency
    /\ result' = ComputeStats(algorithm, st.color)
    /\ UNCHANGED <<nodeOrder, position, degree, neighbors, edges>>

RunGreedy ==
    /\ Completes("Greedy", GreedyColoring(RunState))
    /\ last' = [op |-> "greedy_coloring", args |-> <<>>]

RunWelshPowell ==
    /\ Completes("Welsh-Powell", WelshPowell(RunState))
    /\ last' = [op |-> "welsh_powell", args |-> <<>>]

RunDsatur ==
    /\ Completes("DSATUR", Dsatur(RunState))
    /\ last' = [op |-> "dsatur", args |-> <<>>]

RunBacktracking(max_colors) ==
    /\ LET r == BacktrackingExact(RunState, max_colors)
       IN IF r.ok
          THEN Completes("Backtracking-Exact", r.st)
          ELSE /\ color' = r.st.color
               /\ saturation' = r.st.saturation
               /\ adjacency' = r.st.adjacency
               /\ result' = ErrorRecord
               /\ UNCHANGED <<nodeOrder, position, degree, neighbors, edges>>
    /\ last' = [op |-> "backtracking_exact", args |-> <<max_colors>>]

\* dsatur in steps: the same lines as DsaturFirst and DsaturStep, as actions on
\* the graph.  While the call is under way result holds its locals:
\* where it stands (pc: "first" before line 149, "loop" at the test of the
\* while, line 160), the set uncolored, and steps, the number of assignments
\* to a node's colour it has made.
Frame(pc, uncolored, steps) ==
    [kind |-> "running", pc |-> pc, uncolored |-> uncolored, steps |-> steps]

\* A call that runs in steps (dsatur, or the search of backtracking_exact) is
\* under way.
InRun == "pc" \in DOMAIN result

\* dsatur, lines 143-146: reset_colors() and uncolored = set(nodes.keys())
DsaturEnter ==
    /\ ~InRun
    /\ color' = ResetColors(RunStateOf(color, saturation, adjacency)).color
    /\ saturation' = ResetColors(RunStateOf(color, saturation, adjacency)).saturation
    /\ result' = Frame("first", NodeIds, 0)
    /\ last' = [op |-> "dsatur", args |-> <<>>]
    /\ UNCHANGED <<nodeOrder, position, degree, neighbors, edges, adjacency>>

\* dsatur, lines 149-157: the first node, when there is one
DsaturColorFirst ==
    /\ InRun
    /\ result.pc = "first"
    /\ IF result.uncolored = {}
       THEN /\ result' = Frame("loop", {}, 0)
            /\ UNCHANGED <<color, saturation, adjacency>>
       ELSE \E first_node \in {MaxFirst(SetIterOrder(result.uncolored),
                                        [n \in result.uncolored |-> <<degree[n], 0>>])} :
                /\ color' = [color EXCEPT ![first_node] = 0]
                /\ adjacency' = AdjTouch(adjacency, first_node)
                /\ saturation' = [n \in DOMAIN saturation |->
                                    IF /\ n \in AdjGet(adjacency, first_node)
                                       /\ n \in result.uncolored \ {first_node}
                                    THEN saturation[n] + 1
                                    ELSE saturation[n]]
                /\ result' = Frame("loop", result.uncolored \ {first_node}, 1)
    /\ UNCHANGED <<nodeOrder, position, degree, neighbors, edges, last>>

\* Mutant: lines 176-179 as an increment, saturation += 1, in place of the
\* recomputation from the neighbours' colours.
DsaturColorNextIncrement ==
    /\ InRun
    /\ result.pc = "loop"
    /\ result.uncolored /= {}
    /\ \E selected \in {MaxFirst(SetIterOrder(result.uncolored),
                                  [n \in result.uncolored |-> <<saturation[n], degree[n]>>])} :
          /\ color' = [color EXCEPT ![selected] =
                           GetSmallestAvailableColor(
                               GetNeighborColors(adjacency, color, selected))]
          /\ adjacency' = AdjTouch(adjacency, selected)
          /\ saturation' = [n \in DOMAIN saturation |->
                              IF /\ n \in AdjGet(adjacency, selected)
                                 /\ n \in result.uncolored \ {selected}
                              THEN saturation[n] + 1
                              ELSE saturation[n]]
          /\ result' = Frame("loop", result.uncolored \ {selected}, result.steps + 1)
    /\ UNCHANGED <<nodeOrder, position, degree, neighbors, edges, last>>

\* Mutant: the loop without line 173, uncolored.remove(selected).
DsaturColorNextNoRemove ==
    /\ InRun
    /\ result.pc = "loop"
    /\ result.uncolored /= {}
    /\ \E selected \in {MaxFirst(SetIterOrder(result.uncolored),
                                  [n \in result.uncolored |-> <<saturation[n], degree[n]>>])} :
          /\ color' = [color EXCEPT ![selected] =
                           GetSmallestAvailableColor(
                               GetNeighborColors(adjacency, color, selected))]
          /\ adjacency' = AdjTouch(adjacency, selected)
          /\ saturation' = [n \in DOMAIN saturation |->
                              IF /\ n \in AdjGet(adjacency, selected)
                                 /\ n \in result.uncolored
                              THEN Cardinality(GetNeighborColors(adjacency, color', n))
                              ELSE saturation[n]]
          /\ result' = Frame("loop", result.uncolored, result.steps)
    /\ UNCHANGED <<nodeOrder, position, degree, neighbors, edges, last>>

\* dsatur, lines 160-179: one pass of the while loop
DsaturColorNext ==
    /\ InRun
    /\ result.pc = "loop"
    /\ result.uncolored /= {}
    /\ \E selected \in {MaxFirst(SetIterOrder(result.uncolored),
                                  [n \in result.uncolored |-> <<saturation[n], degree[n]>>])} :
          /\ color' = [color EXCEPT ![selected] =
                           GetSmallestAvailableColor(
                               GetNeighborColors(adjacency, color, selected))]
          /\ adjacency' = AdjTouch(adjacency, selected)
          /\ saturation' = [n \in DOMAIN saturation |->
                              IF /\ n \in AdjGet(adjacency, selected)
                                 /\ n \in result.uncolored \ {selected}
                              THEN Cardinality(GetNeighborColors(adjacency, color', n))
                              ELSE saturation[n]]
          /\ result' = Frame("loop", result.uncolored \ {selected}, result.steps + 1)
    /\ UNCHANGED <<nodeOrder, position, degree, neighbors, edges, last>>

\* dsatur, line 181: the loop has ended, the record is returned
DsaturReturn ==
    /\ InRun
    /\ result.pc = "loop"
    /\ result.uncolored = {}
    /\ result' = ComputeStats("DSATUR", color)
    /\ UNCHANGED <<graphVars, last>>

\* backtracking_exact in steps.  While the search is under way result holds
\* max_colors and the stack of the calls of backtrack that have entered their
\* loop, outermost first: stack[i] belongs to backtrack(i - 1), its node is
\* nodeOrder[i], and it holds the locals neighbor_colors and color (the loop
\* variable).  pc is "call" when backtrack(Len(stack)) has just been called,
\* "try" at the head of the loop of the innermost call, and "failed" when the
\* call made from that loop has returned False.
SearchFrame(pc, max_colors, stack) ==
    [kind |-> "running", pc |-> pc, max_colors |-> max_colors, stack |-> stack]

\* The innermost call that has entered its loop, and its node.
TopCall == result.stack[Len(result.stack)]
TopNode == nodeOrder[Len(result.stack)]

\* The stack with the loop variable of the innermost call advanced by one.
NextColorStack ==
    [result.stack EXCEPT ![Len(result.stack)].color = @ + 1]

\* backtracking_exact, lines 188-194 and the call backtrack(0) of line 212
BtEnter(max_colors) ==
    /\ ~InRun
    /\ color' = ResetColors(RunStateOf(color, saturation, adjacency)).color
    /\ saturation' = ResetColors(RunStateOf(color, saturation, adjacency)).saturation
    /\ result' = SearchFrame("call", Budget(max_colors), <<>>)
    /\ last' = [op |-> "backtracking_exact", args |-> <<max_colors>>]
    /\ UNCHANGED <<nodeOrder, position, degree, neighbors, edges, adjacency>>

\* backtrack, lines 197-201.  With idx == len(node_ids) the call returns True,
\* so does every call below it (line 207), and line 216 returns the record.
BtCall ==
    /\ InRun
    /\ result.pc = "call"
    /\ IF Len(result.stack) = Len(nodeOrder)
       THEN /\ result' = ComputeStats("Backtracking-Exact", color)
            /\ UNCHANGED adjacency
       ELSE \E node_id \in {nodeOrder[Len(result.stack) + 1]} :
                /\ result' = SearchFrame("try", result.max_colors,
                       Append(result.stack,
                              [neighbor_colors |-> GetNeighborColors(adjacency, color, node_id),
                               color |-> 0]))
                /\ adjacency' = AdjTouch(adjacency, node_id)
    /\ UNCHANGED <<nodeOrder, position, color, degree, saturation, neighbors, edges, last>>

\* Mutant: the test of line 204 left out, every colour of the range is tried.
BtTryAnyColor ==
    /\ InRun
    /\ result.pc = "try"
    /\ TopCall.color < result.max_colors
    /\ color' = [color EXCEPT ![TopNode] = TopCall.color]
    /\ result' = SearchFrame("call", result.max_colors, result.stack)
    /\ UNCHANGED <<nodeOrder, position, degree, saturation, neighbors, edges, adjacency, last>>

\* backtrack, lines 203-206: one pass of the loop over range(max_colors)
BtTry ==
    /\ InRun
    /\ result.pc = "try"
    /\ TopCall.color < result.max_colors
    /\ IF TopCall.color \notin TopCall.neighbor_colors
       THEN /\ color' = [color EXCEPT ![TopNode] = TopCall.color]
            /\ result' = SearchFrame("call", result.max_colors, result.stack)
       ELSE /\ result' = SearchFrame("try", result.max_colors, NextColorStack)
            /\ UNCHANGED color
    /\ UNCHANGED <<nodeOrder, position, degree, saturation, neighbors, edges, adjacency, last>>

\* backtrack, line 210: the range is used up, the call returns False; when
\* it is backtrack(0), lines 213-214 return the failure record.
BtExhausted ==
    /\ InRun
    /\ result.pc = "try"
    /\ TopCall.color >= result.max_colors
    /\ result' = IF Len(result.stack) = 1
                  THEN ErrorRecord
                  ELSE SearchFrame("failed", result.max_colors,
                                   SubSeq(result.stack, 1, Len(result.stack) - 1))
    /\ UNCHANGED <<graphVars, last>>

\* backtrack, line 208: the colour that failed is taken back, the loop goes on
BtUndo ==
    /\ InRun
    /\ result.pc = "failed"
    /\ color' = [color EXCEPT ![TopNode] = None]
    /\ result' = SearchFrame("try", result.max_colors, NextColorStack)
    /\ UNCHANGED <<nodeOrder, position, degree, saturation, neighbors, edges, adjacency, last>>

\* ------------------------------------------------------------------ specifications

\* The default of add_node's position parameter, (0.0, 0.0)
DefaultPosition == <<0, 0>>

\* max_colors: None (the default) or an explicit budget
Budgets == {None} \cup (0..MaxBudget)

EdgeLess(e, f) == e[1] < f[1] \/ (e[1] = f[1] /\ e[2] < f[2])

\* Spec: graphs of up to MaxNodes nodes and MaxEdges edges, every insertion
\* order of the nodes, and the four algorithms run at any time.  To keep the
\* graphs countable the caller adds nodes at the default position and adds
\* the edges (u, v), u < v, in ascending order (the nested loops of the
\* generators); a colour is pre-assigned to uncoloured nodes only.  SpecGraph
\* lifts these restrictions on smaller graphs.
CallAddNode == \E id \in Ids : Len(nodeOrder) < MaxNodes /\ AddNode(id, DefaultPosition)

CallAddEdge ==
    \E u \in Ids, v \in Ids :
        /\ Len(edges) < MaxEdges
        /\ u < v
        /\ \A i \in 1..Len(edges) : EdgeLess(edges[i], <<u, v>>)
        /\ AddEdge(u, v)

PreAssign == \E id \in NodeIds, c \in SeedColors : color[id] = None /\ SetColor(id, c)

CallBacktracking == \E k \in Budgets : RunBacktracking(k)

Next ==
    \/ CallAddNode
    \/ CallAddEdge
    \/ PreAssign
    \/ RunGreedy
    \/ RunWelshPowell
    \/ RunDsatur
    \/ CallBacktracking

Spec == Init /\ [][Next]_vars

\* SpecGraph: the Graph container alone, with add_node and add_edge called on
\* any ids in any order and orientation (missing ids, self-loops and repeats
\* included), colours overwritten at will, and DSATUR for saturation values.
\* A new node gets the default position; a repeated add_node passes any.
FreeAddNode ==
    \E id \in FreeIds, pos \in Positions :
        /\ IF id \in NodeIds THEN TRUE
           ELSE Len(nodeOrder) < MaxFreeNodes /\ pos = DefaultPosition
        /\ AddNode(id, pos)

FreeAddEdge ==
    \E u \in FreeIds, v \in FreeIds :
        /\ \/ Len(edges) < MaxEdges
           \/ u = v
           \/ u \notin NodeIds
           \/ v \notin NodeIds
           \/ v \in AdjGet(adjacency, u)
        /\ AddEdge(u, v)

FreeSetColor == \E id \in NodeIds, c \in SeedColors : SetColor(id, c)

FreeGetNeighborColors == \E id \in FreeIds : GetNeighborColorsCall(id)

FreeComputeStats == ComputeStatsCall("Manual")

NextGraph ==
    \/ FreeAddNode
    \/ FreeAddEdge
    \/ FreeSetColor
    \/ RunDsatur
    \/ FreeGetNeighborColors
    \/ ResetColorsCall
    \/ FreeComputeStats

SpecGraph == Init /\ [][NextGraph]_vars

\* Graph(num_nodes): the constructor adds the nodes 0..num_nodes-1 in this order.
GraphOf(num_nodes) ==
    /\ nodeOrder = [i \in 1..num_nodes |-> i - 1]
    /\ position = [n \in 0..(num_nodes - 1) |-> DefaultPosition]
    /\ color = [n \in 0..(num_nodes - 1) |-> None]
    /\ degree = [n \in 0..(num_nodes - 1) |-> 0]
    /\ saturation = [n \in 0..(num_nodes - 1) |-> 0]
    /\ neighbors = [n \in 0..(num_nodes - 1) |-> {}]
    /\ edges = <<>>
    /\ adjacency = <<>>
    /\ last = [op |-> "Graph", args |-> <<num_nodes>>]
    /\ result = ReturnedNone

\* SpecBuilt: the way the tests and generators use the engine.  The graph is
\* made by Graph(n), n <= MaxGraphNodes, its edges are added (u < v, in
\* ascending order), and then DSATUR and Welsh-Powell run on it.  Every graph
\* on the ids 0..n-1 with up to MaxGraphEdges edges arises, so every way of
\* laying a cycle, a star or K_{3,3} over the ids and the insertion order does.
InitBuilt == \E n \in 0..MaxGraphNodes : GraphOf(n)

BuiltAddEdge ==
    \E u \in NodeIds, v \in NodeIds :
        /\ last.op \in {"Graph", "add_edge"}
        /\ Len(edges) < MaxGraphEdges
        /\ u < v
        /\ \A i \in 1..Len(edges) : EdgeLess(edges[i], <<u, v>>)
        /\ AddEdge(u, v)

NextBuilt ==
    \/ BuiltAddEdge
    \/ RunDsatur
    \/ RunWelshPowell

SpecBuilt == InitBuilt /\ [][NextBuilt]_vars


\* SpecSteps: dsatur run one step at a time on graphs of up to MaxStepNodes
\* nodes (ids -1..MaxId, any insertion order) and MaxStepEdges edges.  The
\* caller is single-threaded: it adds nodes and edges between runs, not
\* while one is under way.
StepAddNode ==
    \E id \in Ids :
        /\ ~InRun
        /\ id \notin NodeIds
        /\ Len(nodeOrder) < MaxStepNodes
        /\ AddNode(id, DefaultPosition)

StepAddEdge ==
    \E u \in NodeIds, v \in NodeIds :
        /\ ~InRun
        /\ Len(edges) < MaxStepEdges
        /\ u < v
        /\ \A i \in 1..Len(edges) : EdgeLess(edges[i], <<u, v>>)
        /\ AddEdge(u, v)

NextSteps ==
    \/ StepAddNode
    \/ StepAddEdge
    \/ DsaturEnter
    \/ DsaturColorFirst
    \/ DsaturColorNext
    \/ DsaturReturn

SpecSteps == Init /\ [][NextSteps]_vars

\* A call that has started runs on: the interpreter executes dsatur to its end.
SpecStepsFair ==
    /\ SpecSteps
    /\ WF_vars(DsaturColorFirst)
    /\ WF_vars(DsaturColorNext)
    /\ WF_vars(DsaturReturn)

\* SpecSearch: backtracking_exact run one step at a time, with any budget, on
\* the graphs of SpecSteps.
SearchEnter == \E k \in Budgets : BtEnter(k)

NextSearch ==
    \/ StepAddNode
    \/ StepAddEdge
    \/ SearchEnter
    \/ BtCall
    \/ BtTry
    \/ BtExhausted
    \/ BtUndo

SpecSearch == Init /\ [][NextSearch]_vars

\* A search that has started runs on: the interpreter executes it to its end.
SpecSearchFair ==
    /\ SpecSearch
    /\ WF_vars(BtCall)
    /\ WF_vars(BtTry)
    /\ WF_vars(BtExhausted)
    /\ WF_vars(BtUndo)

\* ------------------------------------------------------------------ properties

Algorithms == {"greedy_coloring", "welsh_powell", "dsatur", "backtracking_exact"}

\* The most recent call was a run of one of the algorithms ...
RanAlgorithm == last.op \in Algorithms

\* ... and it returned the statistics record (it completed) ...
Completed == RanAlgorithm /\ "chromatic_number" \in DOMAIN result

\* ... or it was backtracking_exact returning the failure record.
Infeasible == last.op = "backtracking_exact" /\ "error" \in DOMAIN result

AllColored == \A n \in NodeIds : color[n] /= None

\* No edge joins two nodes of the same colour.
ProperlyColored == \A i \in 1..Len(edges) : color[edges[i][1]] /= color[edges[i][2]]

\* C1: after a completed run of any of the four algorithms every node is
\* coloured, no edge has two endpoints of the same colour, and count_conflicts()
\* (also as reported in the record) is 0.
C1_CompletedRunIsProper ==
    Completed =>
        /\ AllColored
        /\ ProperlyColored
        /\ CountConflicts(edges, color) = 0
        /\ result.conflicts = 0

\* A completed run of each algorithm on a graph with three edges.
C1_Witness ==
    /\ Completed
    /\ Len(edges) = 3
    /\ Len(nodeOrder) = 4
    /\ AllColored
    /\ result.chromatic_number = 3


\* The graph a run of the algorithm named op, called with args, leaves when it
\* starts from st.
AfterRun(op, args, st) ==
    CASE op = "greedy_coloring" -> GreedyColoring(st)
      [] op = "welsh_powell" -> WelshPowell(st)
      [] op = "dsatur" -> Dsatur(st)
      [] op = "backtracking_exact" -> BacktrackingExact(st, args[1]).st

\* A step that runs one of the four algorithms (every action names itself in last).
AlgorithmRun == last'.op \in Algorithms

\* The graph with every node uncoloured, its saturations as they are.
Uncolored == [RunState EXCEPT !.color = [n \in DOMAIN color |-> None]]

\* The colour of n is the same after the step as before it.
KeepsColor(n) == color'[n] = color[n]

\* C2 as stated: a node the caller has coloured keeps that colour through a run
\* of any of the algorithms.
C2_PreColoredKept ==
    [][(last.op = "set_color" /\ AlgorithmRun) =>
           \A n \in NodeIds : color[n] /= None => KeepsColor(n)]_vars

\* Every node coloured before the step has afterwards the colour c gives it.
PreColoredGet(c) == \A n \in NodeIds : color[n] /= None => color'[n] = c[n]

\* C2 as amended: pre-assigned colours are not fixed input.  A run first
\* uncolours every node, so a node coloured before the run has afterwards the
\* colour the algorithm computes on the uncoloured graph (None when
\* backtracking_exact reports failure).
C2_PreColoredRecomputed ==
    [][AlgorithmRun => PreColoredGet(AfterRun(last'.op, last'.args, Uncolored).color)]_vars

\* The caller has just pre-assigned colour 1 to a node of a graph with an edge,
\* and each of the four algorithms will leave that node with another colour.
C2_Witness ==
    /\ last.op = "set_color"
    /\ Len(edges) >= 1
    /\ \E n \in NodeIds :
          /\ color[n] = 1
          /\ GreedyColoring(RunState).color[n] /= 1
          /\ WelshPowell(RunState).color[n] /= 1
          /\ Dsatur(RunState).color[n] /= 1
          /\ BacktrackingExact(RunState, None).st.color[n] /= 1

\* f uses the colours 0..k-1 only and gives the ends of every edge two colours.
IsProperColoring(f, k) ==
    /\ \A n \in NodeIds : f[n] \in 0..(k - 1)
    /\ \A i \in 1..Len(edges) : f[edges[i][1]] /= f[edges[i][2]]

\* The graph has a proper colouring with the colours 0..k-1.
KColorable(k) == \E f \in [NodeIds -> 0..(k - 1)] : IsProperColoring(f, k)

\* The chromatic number of the graph: the least k with a proper k-colouring.
TrueChromaticNumber ==
    CHOOSE k \in 0..Len(nodeOrder) : KColorable(k) /\ \A j \in 0..(k - 1) : ~KColorable(j)

\* The budget of the most recent backtracking_exact call.
LastBudget == Budget(last.args[1])

\* C3 as stated: a successful backtracking_exact run with the default budget,
\* or with a budget of at least the chromatic number, reports the chromatic
\* number of the graph, which no heuristic undercuts.
C3_BacktrackingIsExact ==
    (Completed /\ last.op = "backtracking_exact" /\ LastBudget >= TrueChromaticNumber) =>
        /\ result.chromatic_number = TrueChromaticNumber
        /\ result.chromatic_number <= GetChromaticNumber(GreedyColoring(RunState).color)
        /\ result.chromatic_number <= GetChromaticNumber(WelshPowell(RunState).color)
        /\ result.chromatic_number <= GetChromaticNumber(Dsatur(RunState).color)

\* C4: backtracking_exact(max_colors = k) reports failure exactly when the
\* graph has no proper colouring with the colours 0..k-1; otherwise it returns
\* the statistics record and every node has a colour in 0..k-1.
C4_FailureIffNotColorable ==
    last.op = "backtracking_exact" =>
        /\ Infeasible <=> ~KColorable(LastBudget)
        /\ Completed <=> KColorable(LastBudget)
        /\ Completed => IsProperColoring(color, LastBudget)

\* Failure on a triangle with budget 2.
C4_Witness ==
    /\ Infeasible
    /\ last.args[1] = 2
    /\ Len(edges) = 3
    /\ Len(nodeOrder) = 3

\* C5: when backtracking_exact finds no colouring within the budget it returns
\* a record with an 'error' entry and nothing else, and every node is uncoloured.
C5_FailureLeavesUncolored ==
    (last.op = "backtracking_exact" /\ ~KColorable(LastBudget)) =>
        /\ DOMAIN result = {"error"}
        /\ \A n \in NodeIds : color[n] = None

\* Failure after a search that coloured and uncoloured nodes: four nodes, of
\* which three form a triangle, and budget 2.
C5_Witness ==
    /\ Infeasible
    /\ last.args[1] = 2
    /\ Len(nodeOrder) = 4
    /\ DOMAIN result = {"error"}
    /\ \A n \in NodeIds : color[n] = None


\* u and v are joined by an entry of edges, in either orientation.
Joined(u, v) == \E i \in 1..Len(edges) : edges[i] = <<u, v>> \/ edges[i] = <<v, u>>

\* C6: after any sequence of add_node and add_edge calls the three copies of
\* the edge relation agree: adjacency is symmetric and free of self-loops,
\* edges holds no (u, u) and each unordered pair at most once, adjacency is the
\* symmetric closure of edges, and each node's neighbors and degree are
\* adjacency[u] and its size.
C6_GraphConsistent ==
    /\ \A u \in DOMAIN adjacency : \A v \in adjacency[u] :
          u \in AdjGet(adjacency, v) /\ u /= v
    /\ \A i \in 1..Len(edges) : edges[i][1] /= edges[i][2]
    /\ \A i \in 1..Len(edges) : \A j \in 1..Len(edges) :
          i /= j => {edges[i][1], edges[i][2]} /= {edges[j][1], edges[j][2]}
    /\ \A u \in FreeIds \cup DOMAIN adjacency :
          AdjGet(adjacency, u) = {v \in FreeIds : Joined(u, v)}
    /\ \A u \in NodeIds :
          /\ neighbors[u] = AdjGet(adjacency, u)
          /\ degree[u] = Cardinality(AdjGet(adjacency, u))

\* Three nodes and three edges, one of them added as (v, u) with v > u.
C6_Witness ==
    /\ Len(nodeOrder) = 3
    /\ Len(edges) = 3
    /\ \E i \in 1..3 : edges[i][1] > edges[i][2]
    /\ \A u \in NodeIds : degree[u] = 2

\* C7: add_edge(u, v) with u or v not a node raises (ValueError) and changes
\* nothing of the graph: no node is created, and nodes, edges, adjacency with
\* its key set, degrees and neighbour sets are as before the call.
C7_BadEdgeRaisesUnchanged ==
    [][(last'.op = "add_edge" /\ ~({last'.args[1], last'.args[2]} \subseteq NodeIds)) =>
           /\ result' = Raised("ValueError")
           /\ UNCHANGED graphVars]_vars

\* add_edge has just raised on a graph with an edge; its first id is a node, the
\* second is not.
C7_Witness ==
    /\ last.op = "add_edge"
    /\ result = Raised("ValueError")
    /\ Len(edges) >= 1
    /\ last.args[1] \in NodeIds
    /\ last.args[2] \notin NodeIds

\* The step is a call that the claim names redundant.
RedundantCall ==
    \/ last'.op = "add_node" /\ last'.args[1] \in NodeIds
    \/ /\ last'.op = "add_edge"
       /\ {last'.args[1], last'.args[2]} \subseteq NodeIds
       /\ \/ last'.args[1] = last'.args[2]
          \/ Joined(last'.args[1], last'.args[2])

\* C8: add_node of a present id, add_edge(u, u) and add_edge on a pair already
\* joined (in either orientation) return normally and leave nodes, positions,
\* colours, saturations, edges, adjacency, degrees and neighbour sets as they
\* were; so a pair joined by repeated calls has one entry in edges, and after
\* one genuine edge both ends have degree 1.
C8_RedundantCallsAreNoOps ==
    /\ [][RedundantCall => (UNCHANGED graphVars /\ result' = ReturnedNone)]_vars
    /\ [](\A u \in NodeIds : \A v \in NodeIds :
            /\ Cardinality({i \in 1..Len(edges) :
                              edges[i] = <<u, v>> \/ edges[i] = <<v, u>>}) <= 1
            /\ (edges = << <<u, v>> >>) => (degree[u] = 1 /\ degree[v] = 1))

\* add_edge(v, u) has just returned on a graph whose only edge is (u, v).
C8_Witness ==
    /\ last.op = "add_edge"
    /\ result = ReturnedNone
    /\ Len(edges) = 1
    /\ edges[1] = <<last.args[2], last.args[1]>>
    /\ degree[last.args[1]] = 1
    /\ degree[last.args[2]] = 1
    /\ \E n \in NodeIds : color[n] /= None

\* The graph with every node uncoloured and every saturation 0.
Clean ==
    [color |-> [n \in DOMAIN color |-> None],
     saturation |-> [n \in DOMAIN saturation |-> 0],
     adjacency |-> adjacency]

\* What a run of the algorithm named op, called with args, returns when it
\* starts from st.
Returned(op, args, st) ==
    IF op = "backtracking_exact" /\ ~BacktrackingExact(st, args[1]).ok THEN ErrorRecord
    ELSE ComputeStats(
             CASE op = "greedy_coloring" -> "Greedy"
               [] op = "welsh_powell" -> "Welsh-Powell"
               [] op = "dsatur" -> "DSATUR"
               [] op = "backtracking_exact" -> "Backtracking-Exact",
             AfterRun(op, args, st).color)

\* C9: a run of an algorithm leaves the colours, and returns the record (with
\* its chromatic_number), that the same algorithm gives on the same graph with
\* all colours None and all saturations 0: the outcome does not depend on the
\* colours and saturations the nodes held before, so two runs agree.
C9_IndependentOfPriorColors ==
    [][AlgorithmRun =>
           /\ color' = AfterRun(last'.op, last'.args, Clean).color
           /\ result' = Returned(last'.op, last'.args, Clean)]_vars

\* DSATUR has run and left saturations of 2, and running it again from these
\* colours and saturations gives the same colours.
C9_Witness ==
    /\ last.op = "dsatur"
    /\ \E n \in NodeIds : saturation[n] >= 2
    /\ \E n \in NodeIds : saturation[n] = 0 /\ degree[n] > 0
    /\ Dsatur(RunState).color = color

\* Every two distinct nodes are joined, and there is at least one node.
IsComplete ==
    /\ Len(nodeOrder) >= 1
    /\ \A u \in NodeIds : \A v \in NodeIds : u /= v => Joined(u, v)

\* C10: on the complete graph K_n, n >= 1, each algorithm (backtracking_exact
\* with the default budget) reports chromatic_number n, conflicts 0 and
\* efficiency 0.
C10_CompleteGraphNeedsN ==
    (IsComplete /\ RanAlgorithm /\ (last.op = "backtracking_exact" => last.args[1] = None)) =>
        /\ Completed
        /\ result.chromatic_number = Len(nodeOrder)
        /\ result.conflicts = 0
        /\ result.efficiency = 0

\* An algorithm has run on the triangle K_3.
C10_Witness ==
    /\ IsComplete
    /\ Len(nodeOrder) = 3
    /\ Completed
    /\ result.chromatic_number = 3
    /\ result.efficiency = 0

\* The unordered pairs of nodes that edges joins.
EdgeSet == {{edges[i][1], edges[i][2]} : i \in 1..Len(edges)}

\* The graph is bipartite: it has a proper colouring with two colours.
IsBipartite == KColorable(2)

\* C11: on every bipartite graph with at least one edge (even cycles, stars and
\* complete bipartite graphs among them, laid over the ids in any way) dsatur
\* reports exactly 2 colours and 0 conflicts.
C11_DsaturTwoColorsBipartite ==
    (last.op = "dsatur" /\ IsBipartite /\ Len(edges) >= 1) =>
        /\ result.chromatic_number = 2
        /\ result.conflicts = 0
        /\ GetChromaticNumber(color) = 2
        /\ ProperlyColored

\* dsatur has run on a K_{3,3} whose sides are not {0,1,2} and {3,4,5}.
C11_Witness ==
    /\ last.op = "dsatur"
    /\ Len(nodeOrder) = 6
    /\ Len(edges) = 9
    /\ IsBipartite
    /\ {0, 1} \in EdgeSet
    /\ result.chromatic_number = 2

\* The nodes reachable from those of S along edges.
RECURSIVE Reach(_)
Reach(S) ==
    LET T == S \cup {v \in NodeIds : \E u \in S : Joined(u, v)}
    IN IF T = S THEN S ELSE Reach(T)

Connected == NodeIds = {} \/ Reach({nodeOrder[1]}) = NodeIds

\* The graph is a cycle through all its nodes; C_2 is two nodes joined once,
\* since add_edge drops the second edge between them.
IsCycleGraph ==
    \/ Len(nodeOrder) = 2 /\ Len(edges) = 1
    \/ /\ Len(nodeOrder) >= 3
       /\ \A n \in NodeIds : degree[n] = 2
       /\ Connected

IsEvenCycle == IsCycleGraph /\ Len(nodeOrder) % 2 = 0

\* The path 0-1-2-3-4 on Graph(5).
IsPath5 ==
    /\ nodeOrder = <<0, 1, 2, 3, 4>>
    /\ EdgeSet = {{0, 1}, {1, 2}, {2, 3}, {3, 4}}

\* The pairs of neighbours on the cycle that visits the nodes in the order p.
CycleOn(p) == {{p[i], p[(i % Len(p)) + 1]} : i \in 1..Len(p)}

\* The nodes were inserted in the order in which they lie around the cycle.
InsertedAlongCycle == Len(nodeOrder) >= 2 /\ EdgeSet = CycleOn(nodeOrder)

\* C12 as stated: welsh_powell reports exactly 2 colours and 0 conflicts on
\* every even cycle, however the ids and the insertion order lie on it, and on
\* the path 0-1-2-3-4.
C12_WelshPowellTwoColors ==
    (last.op = "welsh_powell" /\ (IsEvenCycle \/ IsPath5)) =>
        /\ result.chromatic_number = 2
        /\ result.conflicts = 0

\* C12 as amended: welsh_powell reports exactly 2 colours and 0 conflicts on
\* the path 0-1-2-3-4, on C_2 and C_4 in any labelling, and on a longer even
\* cycle whose nodes were inserted in the order in which they lie around it.
\* All nodes of a cycle have degree 2, so the stable sort leaves them in
\* insertion order; on other labellings of C_6 the first-fit pass is still
\* free of conflicts and can need a third colour.
C12_WelshPowellTwoColorsInOrder ==
    last.op = "welsh_powell" =>
        /\ ((IsEvenCycle /\ (Len(nodeOrder) <= 4 \/ InsertedAlongCycle)) \/ IsPath5) =>
              (result.chromatic_number = 2 /\ result.conflicts = 0)
        /\ IsEvenCycle => (result.chromatic_number \in {2, 3} /\ result.conflicts = 0)

\* welsh_powell has run on the cycle 0-1-2-3-4-5-0.
C12_Witness ==
    /\ last.op = "welsh_powell"
    /\ Len(nodeOrder) = 6
    /\ IsEvenCycle
    /\ InsertedAlongCycle
    /\ result.chromatic_number = 2
    /\ result.conflicts = 0

\* C13: on the graph without nodes each of the four algorithms (backtracking_exact
\* with the default budget, which is then 0) returns the statistics record, not
\* an exception and not the failure record, with chromatic_number, conflicts
\* and efficiency all 0.
C13_EmptyGraphStats ==
    (/\ Len(nodeOrder) = 0
     /\ RanAlgorithm
     /\ (last.op = "backtracking_exact" => last.args[1] = None)) =>
        /\ Completed
        /\ "error" \notin DOMAIN result
        /\ result.chromatic_number = 0
        /\ result.conflicts = 0
        /\ result.efficiency = 0
        /\ result.nodes = 0

\* backtracking_exact() has returned its record on the empty graph.
C13_Witness ==
    /\ Len(nodeOrder) = 0
    /\ last.op = "backtracking_exact"
    /\ last.args[1] = None
    /\ Budget(last.args[1]) = 0
    /\ result.algorithm = "Backtracking-Exact"
    /\ result.chromatic_number = 0

\* The colours in use: those some node holds, None apart.
ColorsInUse == {color[n] : n \in NodeIds} \ {None}

\* The entries of edges whose two ends are coloured, and coloured alike.
ConflictingEntries ==
    {i \in 1..Len(edges) :
        /\ color[edges[i][1]] /= None
        /\ color[edges[i][2]] /= None
        /\ color[edges[i][1]] = color[edges[i][2]]}

\* e, in hundredths of a percent, is (nodes - chromatic) / nodes * 100 rounded
\* to two decimals, and 0 on the graph without nodes.
IsEfficiencyOf(e, nodes, chromatic) ==
    IF nodes > 0
    THEN /\ 2 * (e * nodes - (nodes - chromatic) * 10000) <= nodes
         /\ 2 * ((nodes - chromatic) * 10000 - e * nodes) <= nodes
    ELSE e = 0

\* C14: in any colour state, partial ones included, the statistics record is a
\* projection of the graph: chromatic_number counts the distinct colours in use,
\* conflicts counts the entries of edges with both ends coloured alike (an
\* uncoloured end never counts), nodes and edges are the sizes, efficiency is
\* (nodes - chromatic_number) / nodes * 100, or 0 without nodes, and lies in
\* 0..100; computing the record changes nothing of the graph.
C14_StatsAreProjection ==
    /\ [][last'.op = "_compute_stats" => UNCHANGED graphVars]_vars
    /\ [](last.op = "_compute_stats" =>
            /\ result.chromatic_number = Cardinality(ColorsInUse)
            /\ result.conflicts = Cardinality(ConflictingEntries)
            /\ \A i \in 1..Len(edges) :
                  (color[edges[i][1]] = None \/ color[edges[i][2]] = None) =>
                      i \notin ConflictingEntries
            /\ result.nodes = Cardinality(NodeIds)
            /\ result.edges = Len(edges)
            /\ IsEfficiencyOf(result.efficiency, result.nodes, result.chromatic_number)
            /\ result.efficiency \in 0..10000)

\* The record of a partly coloured triangle: two nodes share a colour, the
\* third is uncoloured.
C14_Witness ==
    /\ last.op = "_compute_stats"
    /\ Len(nodeOrder) = 3
    /\ Len(edges) = 3
    /\ Cardinality({n \in NodeIds : color[n] = None}) = 1
    /\ result.conflicts = 1
    /\ result.chromatic_number = 1
    /\ result.efficiency = 6667

\* C15 as stated: get_neighbor_colors(id) returns the non-None colours of the
\* neighbours of id and changes nothing, the key set of adjacency included,
\* also for a node without edges and for an id that is not a node.
C15_GetNeighborColorsPure ==
    [][last'.op = "get_neighbor_colors" =>
           /\ result' = Value({color[n] : n \in {m \in NodeIds :
                                     Joined(last'.args[1], m) /\ color[m] /= None}})
           /\ UNCHANGED graphVars]_vars

\* C16: reset_colors() leaves every node uncoloured with saturation 0 and keeps
\* the nodes, positions, edges, adjacency, degrees and neighbour sets; a second
\* call right after the first changes nothing.
C16_ResetColorsFrame ==
    [][last'.op = "reset_colors" =>
           /\ \A n \in NodeIds : color'[n] = None /\ saturation'[n] = 0
           /\ DOMAIN color' = NodeIds /\ DOMAIN saturation' = NodeIds
           /\ UNCHANGED <<nodeOrder, position, degree, neighbors, edges, adjacency>>
           /\ result' = ReturnedNone
           /\ (last.op = "reset_colors" => UNCHANGED graphVars)]_vars

\* reset_colors() has run on a triangle, after dsatur had coloured it (every
\* node has its adjacency key from that run).
C16_Witness ==
    /\ last.op = "reset_colors"
    /\ Len(nodeOrder) = 3
    /\ Len(edges) = 3
    /\ \A n \in NodeIds : color[n] = None /\ saturation[n] = 0 /\ degree[n] = 2

\* C17: on a graph with at least one node the chromatic_number that dsatur
\* reports is at least 1 and at most the number of nodes.
C17_DsaturWithinNodeCount ==
    (last.op = "dsatur" /\ Len(nodeOrder) >= 1) =>
        /\ result.chromatic_number >= 1
        /\ result.chromatic_number <= Len(nodeOrder)
        /\ result.chromatic_number <= result.nodes

\* dsatur has run on K_4, where the bound is attained.
C17_Witness ==
    /\ last.op = "dsatur"
    /\ Len(nodeOrder) = 4
    /\ Len(edges) = 6
    /\ result.chromatic_number = 4

\* The number of distinct colours the coloured neighbours of n hold.
ColoredNeighborColors(n) == {color[m] : m \in {k \in NodeIds : Joined(n, k) /\ color[k] /= None}}

TrueSaturation(n) == Cardinality(ColoredNeighborColors(n))

\* The smallest colour that no coloured neighbour of n holds.
FirstFreeColor(n) ==
    CHOOSE c \in 0..Len(nodeOrder) :
        /\ c \notin ColoredNeighborColors(n)
        /\ \A d \in 0..(c - 1) : d \in ColoredNeighborColors(n)

\* n comes before m under the stated rule: higher saturation, then higher
\* degree, then smaller id.
RulePrefers(n, m) ==
    \/ TrueSaturation(n) > TrueSaturation(m)
    \/ /\ TrueSaturation(n) = TrueSaturation(m)
       /\ \/ degree[n] > degree[m]
          \/ degree[n] = degree[m] /\ n <= m

\* The step is the colouring of the first node, or of a later one.
FirstStep == InRun /\ result.pc = "first" /\ result.uncolored /= {}
LaterStep == InRun /\ result.pc = "loop" /\ result.uncolored /= {}

\* The step takes exactly n out of uncolored.
Takes(n) == result'.uncolored = result.uncolored \ {n}

\* C18 as stated: the first node dsatur colours has maximum degree and gets
\* colour 0; each later step takes the uncoloured node of highest saturation,
\* ties going to the higher degree and then to the smallest id, and gives it
\* the smallest colour its coloured neighbours do not hold.
C18_DsaturSelectionRule ==
    [][/\ FirstStep =>
            \E n \in result.uncolored :
                /\ Takes(n)
                /\ \A m \in NodeIds : degree[m] <= degree[n]
                /\ color'[n] = 0
       /\ LaterStep =>
            \E n \in result.uncolored :
                /\ Takes(n)
                /\ \A m \in result.uncolored : RulePrefers(n, m)
                /\ color'[n] = FirstFreeColor(n)]_vars

\* C19: whenever dsatur is about to select a node, the saturation field of
\* every uncoloured node is the number of distinct colours its coloured
\* neighbours hold.
C19_SaturationIsExact ==
    InRun => \A n \in result.uncolored : saturation[n] = TrueSaturation(n)

\* dsatur is about to select, and an uncoloured node has two coloured
\* neighbours of one colour: its saturation is 1, not 2.
C19_Witness ==
    /\ InRun
    /\ result.pc = "loop"
    /\ \E n \in result.uncolored :
          /\ Cardinality({k \in NodeIds : Joined(n, k) /\ color[k] /= None}) = 2
          /\ saturation[n] = 1

\* The step colours exactly the node n: it was uncoloured, it is coloured now
\* and out of uncolored, and every other node has the colour it had.
ColorsExactly(n) ==
    /\ color[n] = None
    /\ color'[n] /= None
    /\ Takes(n)
    /\ \A m \in NodeIds \ {n} : color'[m] = color[m]

\* The run has returned with every node coloured.
RunDone == ~InRun /\ last.op = "dsatur" /\ Completed /\ AllColored

\* C20: a dsatur run ends, with all nodes coloured; each of its steps colours
\* exactly one node that was uncoloured and leaves the colours of the others
\* as they are, and when the loop ends the steps number as many as the nodes.
C20_DsaturTerminates ==
    /\ InRun ~> RunDone
    /\ [][(FirstStep \/ LaterStep) =>
             /\ \E n \in result.uncolored : ColorsExactly(n)
             /\ result'.steps = result.steps + 1]_vars
    /\ [](InRun =>
            /\ result.uncolored = {n \in NodeIds : color[n] = None}
            /\ result.steps = Cardinality(NodeIds \ result.uncolored)
            /\ (result.pc = "loop" /\ result.uncolored = {}) =>
                  (result.steps = Len(nodeOrder) /\ AllColored))

\* The loop of a run on four nodes has just ended: four steps, no node left.
C20_Witness ==
    /\ InRun
    /\ result.pc = "loop"
    /\ result.uncolored = {}
    /\ result.steps = 4
    /\ Len(edges) = 4
    /\ AllColored

\* The place of node n in the insertion order.
Pos(n) == CHOOSE i \in 1..Len(nodeOrder) : nodeOrder[i] = n

\* m is processed before n: by ascending id, and by descending degree with
\* equal degrees in insertion order.
BeforeById(m, n) == m < n
BeforeByDegree(m, n) ==
    \/ degree[m] > degree[n]
    \/ degree[m] = degree[n] /\ Pos(m) < Pos(n)

\* The colours of the neighbours of n that come before n, earlier being the
\* set of nodes before n.
EarlierNeighborColors(n, earlier) == {color[m] : m \in {k \in earlier : Joined(n, k)}}

\* c is the smallest non-negative integer outside S.
IsSmallestOutside(c, S) == c \in Nat /\ c \notin S /\ \A d \in 0..(c - 1) : d \in S

\* C21: greedy_coloring leaves the first-fit colouring of the nodes taken in
\* ascending id order, whatever the insertion order, and welsh_powell that of
\* the nodes taken by descending degree, equal degrees in insertion order:
\* each node has the smallest colour no earlier neighbour holds.
C21_FirstFitOverStaticOrder ==
    /\ last.op = "greedy_coloring" =>
          \A n \in NodeIds :
              IsSmallestOutside(color[n],
                  EarlierNeighborColors(n, {m \in NodeIds : BeforeById(m, n)}))
    /\ last.op = "welsh_powell" =>
          \A n \in NodeIds :
              IsSmallestOutside(color[n],
                  EarlierNeighborColors(n, {m \in NodeIds : BeforeByDegree(m, n)}))

\* welsh_powell has run on a path of four nodes whose two inner nodes were
\* inserted in descending id order, and its colouring is not the one that
\* ascending ids give.
C21_Witness ==
    /\ last.op = "welsh_powell"
    /\ Len(nodeOrder) = 4
    /\ Len(edges) = 3
    /\ \E a \in NodeIds, b \in NodeIds :
          /\ degree[a] = 2 /\ degree[b] = 2
          /\ a > b /\ Pos(a) < Pos(b)
          /\ color[a] = 0
    /\ color /= GreedyColoring(RunState).color



\* The search of backtracking_exact is under way.
Searching == InRun /\ "stack" \in DOMAIN result

\* The number of calls of backtrack that are active below backtrack(0): the
\* calls that have entered their loop, and the one just made.
Depth == (Len(result.stack) - 1) + (IF result.pc = "call" THEN 1 ELSE 0)

\* How many nodes the search holds coloured: the nodes of the calls that wait
\* for a call they made, or whose call has just failed.
ColoredCount ==
    IF result.pc = "try" THEN Len(result.stack) - 1 ELSE Len(result.stack)

\* The state of a search: the coloured nodes are the first ColoredCount nodes
\* in insertion order, each with the colour its call's loop is at, a colour of
\* 0..max_colors-1 that none of its coloured neighbours has.
SearchState ==
    /\ ColoredCount \in 0..Len(nodeOrder)
    /\ \A i \in 1..Len(nodeOrder) : (color[nodeOrder[i]] /= None) <=> (i <= ColoredCount)
    /\ \A i \in 1..ColoredCount :
          /\ color[nodeOrder[i]] = result.stack[i].color
          /\ color[nodeOrder[i]] \in 0..(result.max_colors - 1)
    /\ \A i \in 1..Len(edges) :
          (color[edges[i][1]] /= None /\ color[edges[i][2]] /= None)
              => color[edges[i][1]] /= color[edges[i][2]]
    /\ Depth <= Len(nodeOrder)

\* One step of a search: the loops only count upwards, a node that receives a
\* colour is the first uncoloured node in insertion order, and a call that
\* returns failure leaves its node uncoloured (all nodes, when it is the
\* outermost call).
SearchStep ==
    /\ Searching' =>
          /\ \A i \in 1..Len(result.stack) :
                i <= Len(result'.stack) => result'.stack[i].color >= result.stack[i].color
          /\ \A n \in NodeIds :
                (color[n] = None /\ color'[n] /= None) =>
                    /\ \A m \in NodeIds : Pos(m) < Pos(n) <=> color[m] /= None
                    /\ color'[n] = result.stack[Pos(n)].color
          /\ Len(result'.stack) < Len(result.stack) =>
                color'[nodeOrder[Len(result.stack)]] = None
    /\ "error" \in DOMAIN result' => \A n \in NodeIds : color'[n] = None

\* C22: at every point of the backtracking_exact search the coloured nodes are
\* a prefix of the nodes in insertion order, every assigned colour is in
\* 0..k-1 and no edge joins two coloured nodes of one colour; nodes are visited
\* in insertion order, colours tried in ascending order, a node is uncoloured
\* again before its call returns failure; the recursion depth never exceeds
\* the node count and the search always terminates.
C22_SearchInvariantAndTermination ==
    /\ [](Searching => SearchState)
    /\ [][Searching => SearchStep]_vars
    /\ Searching ~> ~InRun

\* A search that has backtracked: a call below backtrack(0) has returned
\* failure to a caller that holds two or more nodes coloured.
C22_Witness ==
    /\ Searching
    /\ result.pc = "failed"
    /\ Len(result.stack) >= 2


\* C23 as stated: a run of greedy_coloring, welsh_powell, dsatur or
\* backtracking_exact, completed or infeasible, changes only colours and
\* saturations: the nodes, their ids and positions, the edges sequence,
\* adjacency with its key set, every degree and every neighbour set are after
\* the run what they were before it.
C23_RunChangesOnlyColors ==
    [][AlgorithmRun =>
           UNCHANGED <<nodeOrder, position, edges, adjacency, degree, neighbors>>]_vars


\* The most recent call is backtracking_exact with the default budget:
\* max_colors left out, or given as the node count.
DefaultBudgetCall ==
    /\ last.op = "backtracking_exact"
    /\ last.args[1] = None \/ last.args[1] = Len(nodeOrder)

\* The nodes were inserted in ascending id order.
InsertedAscending ==
    \A i \in 1..Len(nodeOrder) : \A j \in 1..Len(nodeOrder) :
        i < j => nodeOrder[i] < nodeOrder[j]

\* No call of backtrack has returned False or is about to: no loop has used up
\* its range.
NoFailedCall ==
    /\ result.pc /= "failed"
    /\ result.pc = "try" => TopCall.color < result.max_colors

\* The colouring is first-fit over the insertion order: each node has the
\* smallest colour that no neighbour inserted before it holds.
FirstFitInInsertionOrder ==
    \A n \in NodeIds :
        IsSmallestOutside(color[n],
            EarlierNeighborColors(n, {m \in NodeIds : Pos(m) < Pos(n)}))

Heuristics == {"greedy_coloring", "welsh_powell", "dsatur"}

\* The largest degree of a node (of a graph that has nodes).
MaxDegree == CHOOSE d \in {degree[n] : n \in NodeIds} : \A m \in NodeIds : degree[m] <= d

\* C25: after a completed run of greedy_coloring, welsh_powell or dsatur every
\* node's colour is at most its degree and the colours in use are exactly
\* 0..chromatic_number-1; so chromatic_number is at most the node count, and
\* on a graph that has nodes at most the largest degree plus one, which is at
\* most the node count.
C25_ColorAtMostDegree ==
    (Completed /\ last.op \in Heuristics) =>
        /\ \A n \in NodeIds : color[n] \in 0..degree[n]
        /\ {color[n] : n \in NodeIds} = 0..(result.chromatic_number - 1)
        /\ result.chromatic_number <= Len(nodeOrder)
        /\ NodeIds /= {} =>
              /\ result.chromatic_number <= MaxDegree + 1
              /\ MaxDegree + 1 <= Len(nodeOrder)

\* dsatur has coloured four nodes with three colours, one node of degree 2 or
\* more holding colour 0.
C25_Witness ==
    /\ Completed
    /\ last.op = "dsatur"
    /\ Len(nodeOrder) = 4
    /\ result.chromatic_number = 3
    /\ \E n \in NodeIds : color[n] = 0 /\ degree[n] >= 2

====
